---- MODULE Spec2Model ----
(***************************************************************************)
(* A model of src/data.py: the five predefined queries over the flights    *)
(* and airlines tables, and the FlightData object that runs them through   *)
(* an engine (construction, _execute_query, the five lookups, __del__).    *)
(*                                                                         *)
(* Values.  Identifiers (flights.ID, airlines.ID) are only ever compared   *)
(* for equality, so they are opaque strings ("F1", "AA").  Delays are      *)
(* integers (minutes).  delay_percentage is a two-decimal number; it is    *)
(* held as an integer count of hundredths (33.33 is 3333).                 *)
(* Row order.  A SELECT without ORDER BY returns rows in the order the     *)
(* engine scans the tables; the model scans flights in table order and,    *)
(* for a join, airlines in table order inside that.                        *)
(***************************************************************************)
EXTENDS Integers, Sequences, FiniteSets, TLC

VARIABLES db, obj, engine, acquired, released, unraisable,
          pooled, checkedOut, last, memo

vars == <<db, obj, engine, acquired, released, unraisable,
          pooled, checkedOut, last, memo>>

----------------------------------------------------------------------------
(* Bounds of the datasets and inputs.                                      *)

MaxFlights == 3

MaxAirlines == 3

FixtureRows == 2

FlightIds == <<"F1", "F2", "F3", "F4", "F5", "F6">>

AirlineCodes == {"AA", "DL"}

AirlineNames == <<"American", "Delta">>

Airports == <<"JFK", "LAX">>

Delays == {0, 19, 20}

Days == {1, 2}

Months == {3, 4}

Years == {2015}

----------------------------------------------------------------------------
(* The externally managed dataset: flights(ID, YEAR, MONTH, DAY, AIRLINE,  *)
(* ORIGIN_AIRPORT, DESTINATION_AIRPORT, DEPARTURE_DELAY) and               *)
(* airlines(ID, AIRLINE), as the queries' column references require.       *)

\* Row i of a flights table.  The airline code and the delay are free; the
\* day and the origin airport vary with the row's position.
FlightRow(i, code, delay) ==
    [ID |-> FlightIds[i], YEAR |-> 2015, MONTH |-> 3, DAY |-> 1 + (i % 2),
     AIRLINE |-> code,
     ORIGIN_AIRPORT |-> Airports[1 + ((i \div 2) % 2)],
     DESTINATION_AIRPORT |-> "SFO",
     DEPARTURE_DELAY |-> delay]

FlightTables(n) ==
    UNION { { [i \in 1..k |-> FlightRow(i, f[i][1], f[i][2])] :
                f \in [1..k -> AirlineCodes \X Delays] } : k \in 0..n }

AllAirlineRows ==
    << [ID |-> "AA", AIRLINE |-> "American"],
       [ID |-> "AA", AIRLINE |-> "Delta"],
       [ID |-> "DL", AIRLINE |-> "American"],
       [ID |-> "DL", AIRLINE |-> "Delta"] >>

RECURSIVE PickRows(_, _, _)
PickRows(rows, S, i) ==
    IF i > Len(rows) THEN << >>
    ELSE (IF i \in S THEN << rows[i] >> ELSE << >>) \o PickRows(rows, S, i + 1)

\* Every airlines table of at most n rows: the key need not be unique, a
\* flight's code need not be present, two codes may carry one name.
AirlineTables(n) ==
    { PickRows(AllAirlineRows, S, 1) :
        S \in { T \in SUBSET (1..Len(AllAirlineRows)) : Cardinality(T) <= n } }

\* A small fixture family: the first n rows of a fixed flights table, with a
\* well-formed airlines table.
FixtureFlights(n) ==
    [i \in 1..n |-> FlightRow(i, IF i % 2 = 1 THEN "AA" ELSE "DL",
                              IF i % 2 = 1 THEN 20 ELSE 0)]

FixtureAirlines == << AllAirlineRows[1], AllAirlineRows[4] >>

----------------------------------------------------------------------------
(* The five queries, lines 4-24.                                           *)

RECURSIVE Concat(_)
Concat(ss) == IF ss = << >> THEN << >> ELSE Head(ss) \o Concat(Tail(ss))

\* FROM flights JOIN airlines ON flights.airline = airlines.id
JoinFlightsAirlines(d) ==
    Concat([i \in 1..Len(d.flights) |->
              LET f == d.flights[i]
                  m == SelectSeq(d.airlines, LAMBDA a : f.AIRLINE = a.ID)
              IN [j \in 1..Len(m) |-> [f |-> f, a |-> m[j]]]])

DELAY_MIN == 20

\* Variant: the filter takes any positive delay for a delayed flight.
DelayedAtAll(delay) == delay > 0

DelayedEnough(delay) == delay >= DELAY_MIN

CountsAsDelayed(delay) == delay > 0

ByIdRow(p) ==
    [ID |-> p.f.ID, YEAR |-> p.f.YEAR, MONTH |-> p.f.MONTH, DAY |-> p.f.DAY,
     AIRLINE |-> p.f.AIRLINE, ORIGIN_AIRPORT |-> p.f.ORIGIN_AIRPORT,
     DESTINATION_AIRPORT |-> p.f.DESTINATION_AIRPORT,
     DEPARTURE_DELAY |-> p.f.DEPARTURE_DELAY,
     airline |-> p.a.AIRLINE, FLIGHT_ID |-> p.f.ID, DELAY |-> p.f.DEPARTURE_DELAY]

\* Variant: the join without its ON condition.
ByIdJoinNoOn(d) ==
    Concat([i \in 1..Len(d.flights) |->
              [j \in 1..Len(d.airlines) |-> [f |-> d.flights[i], a |-> d.airlines[j]]]])

\* The FROM ... JOIN ... ON of the by-id query.
ByIdJoin(d) == JoinFlightsAirlines(d)

QUERY_FLIGHT_BY_ID(d, params) ==
    LET hit == SelectSeq(ByIdJoin(d), LAMBDA p : p.f.ID = params.id)
    IN [k \in 1..Len(hit) |-> ByIdRow(hit[k])]

QUERY_FLIGHT_BY_DATE(d, params) ==
    LET hit == SelectSeq(d.flights, LAMBDA f : /\ f.YEAR = params.year
                                              /\ f.MONTH = params.month
                                              /\ f.DAY = params.day)
    IN [k \in 1..Len(hit) |->
          [ID |-> hit[k].ID, ORIGIN_AIRPORT |-> hit[k].ORIGIN_AIRPORT,
           DESTINATION_AIRPORT |-> hit[k].DESTINATION_AIRPORT,
           AIRLINE |-> hit[k].AIRLINE, DELAY |-> hit[k].DEPARTURE_DELAY]]

\* SELECT f.AIRLINE AS ID, ...: the ID column is the flight's airline code.
ByAirlineRow(p) ==
    [ID |-> p.f.AIRLINE, ORIGIN_AIRPORT |-> p.f.ORIGIN_AIRPORT,
     DESTINATION_AIRPORT |-> p.f.DESTINATION_AIRPORT,
     AIRLINE |-> p.a.AIRLINE, DELAY |-> p.f.DEPARTURE_DELAY]

\* SELECT f.ID AS ID, ...
ByAirportRow(p) ==
    [ID |-> p.f.ID, ORIGIN_AIRPORT |-> p.f.ORIGIN_AIRPORT,
     DESTINATION_AIRPORT |-> p.f.DESTINATION_AIRPORT,
     AIRLINE |-> p.a.AIRLINE, DELAY |-> p.f.DEPARTURE_DELAY]

QUERY_FLIGHT_BY_AIRLINE(d, params) ==
    LET hit == SelectSeq(JoinFlightsAirlines(d),
                         LAMBDA p : /\ p.a.AIRLINE = params.airline
                                    /\ DelayedEnough(p.f.DEPARTURE_DELAY))
    IN [k \in 1..Len(hit) |-> ByAirlineRow(hit[k])]

QUERY_FLIGHT_BY_AIRPORT(d, params) ==
    LET hit == SelectSeq(JoinFlightsAirlines(d),
                         LAMBDA p : /\ p.f.ORIGIN_AIRPORT = params.airport
                                    /\ DelayedEnough(p.f.DEPARTURE_DELAY))
    IN [k \in 1..Len(hit) |-> ByAirportRow(hit[k])]

\* Variant: the percentage cut off after two decimals instead of rounded.
TruncPercent(n, c) == (n * 10000) \div c

\* ROUND(n * 100.0 / c, 2), in hundredths: the nearest hundredth, a half
\* going away from zero (n >= 0, c > 0).
RoundPercent(n, c) == (2 * n * 10000 + c) \div (2 * c)

\* GROUP BY a.AIRLINE: one group per airline name that some joined row
\* carries, in the order of the names.
GroupRows(d) ==
    LET j == JoinFlightsAirlines(d)
        grp(name) == SelectSeq(j, LAMBDA p : p.a.AIRLINE = name)
        named == SelectSeq(AirlineNames, LAMBDA name : grp(name) # << >>)
    IN [k \in 1..Len(named) |->
          [airline_name |-> named[k],
           delay_percentage |->
              RoundPercent(
                Len(SelectSeq(grp(named[k]),
                              LAMBDA p : CountsAsDelayed(p.f.DEPARTURE_DELAY))),
                Len(grp(named[k])))]]

RECURSIVE InsertDesc(_, _)
InsertDesc(r, s) ==
    IF s = << >> THEN << r >>
    ELSE IF Head(s).delay_percentage >= r.delay_percentage
         THEN << Head(s) >> \o InsertDesc(r, Tail(s))
         ELSE << r >> \o s

RECURSIVE SortDesc(_)
\* ORDER BY delay_percentage DESC; rows of equal percentage keep their order.
SortDesc(s) ==
    IF s = << >> THEN << >>
    ELSE InsertDesc(s[Len(s)], SortDesc(SubSeq(s, 1, Len(s) - 1)))

OrderByPercentageDesc(s) == SortDesc(s)

QUERY_DELAY_PERCENTAGE_BY_AIRLINE(d, params) == OrderByPercentageDesc(GroupRows(d))

----------------------------------------------------------------------------
(* FlightData._execute_query, lines 41-56.                                 *)

NoFault == [at |-> "none", exc |-> "none"]

\* Where a failure can arise inside the try block: engine.connect(),
\* connection.execute(), .mappings().all(), and the with-statement's exit.
FaultPoints == {"connect", "execute", "fetch", "release"}

\* "SQLAlchemyError" stands for any SQLAlchemyError other than the three
\* named classes, "Exception" for any other Exception.
DatabaseErrors == {"OperationalError", "ProgrammingError", "IntegrityError"}

SQLAlchemyErrors == DatabaseErrors \cup {"SQLAlchemyError"}

Exceptions == SQLAlchemyErrors \cup {"Exception"}

Faults == {NoFault} \cup [at : FaultPoints, exc : Exceptions]

RunQuery(d, query, params) ==
    CASE query = "QUERY_FLIGHT_BY_ID" -> QUERY_FLIGHT_BY_ID(d, params)
      [] query = "QUERY_FLIGHT_BY_DATE" -> QUERY_FLIGHT_BY_DATE(d, params)
      [] query = "QUERY_FLIGHT_BY_AIRLINE" -> QUERY_FLIGHT_BY_AIRLINE(d, params)
      [] query = "QUERY_FLIGHT_BY_AIRPORT" -> QUERY_FLIGHT_BY_AIRPORT(d, params)
      [] query = "QUERY_DELAY_PERCENTAGE_BY_AIRLINE" ->
            QUERY_DELAY_PERCENTAGE_BY_AIRLINE(d, params)

\* self._engine.connect(): a connection is checked out of the engine's pool
\* and carries the transactional state the pool holds for it.
EngineConnect(pl, fault) ==
    IF fault.at = "connect"
    THEN [exc |-> fault.exc, conn |-> "none",
          pooled |-> pl.pooled, checkedOut |-> pl.checkedOut]
    ELSE [exc |-> "none", conn |-> pl.pooled,
          pooled |-> pl.pooled, checkedOut |-> pl.checkedOut + 1]

\* connection.execute(query, params): a statement that fails, or that is
\* sent on a connection whose transaction is already aborted, raises.
ConnectionExecute(conn, d, query, params, fault) ==
    IF fault.at = "execute"
    THEN [exc |-> fault.exc, conn |-> "aborted", cursor |-> << >>]
    ELSE IF conn = "aborted"
    THEN [exc |-> "OperationalError", conn |-> "aborted", cursor |-> << >>]
    ELSE [exc |-> "none", conn |-> conn, cursor |-> RunQuery(d, query, params)]

\* Variant: .mappings().one(), which raises when there is no row.
MappingsOne(cursor, fault) ==
    IF fault.at = "fetch" \/ cursor = << >>
    THEN [exc |-> IF fault.at = "fetch" THEN fault.exc ELSE "SQLAlchemyError",
          rows |-> << >>]
    ELSE [exc |-> "none", rows |-> cursor]

\* .mappings().all(): every row, as a mapping, in the cursor's order.
MappingsAll(cursor, fault) ==
    IF fault.at = "fetch"
    THEN [exc |-> fault.exc, rows |-> << >>]
    ELSE [exc |-> "none", rows |-> cursor]

\* Variant: the connection goes back to the pool without a rollback.
ExitKeepingTransaction(pl, conn, raised) ==
    [pooled |-> conn, checkedOut |-> pl.checkedOut - 1]

\* Variant: connection.close() at the end of the body instead of a with
\* statement, so that a body that raises releases nothing.
ExitOnSuccessOnly(pl, conn, raised) ==
    IF raised THEN [pooled |-> pl.pooled, checkedOut |-> pl.checkedOut]
    ELSE [pooled |-> "clean", checkedOut |-> pl.checkedOut - 1]

\* The with-statement's exit, run whether or not the body raised: the
\* connection's transaction is rolled back and the connection goes back to
\* the pool.  An exit that itself raises (the failure point "release") has
\* still ended the scope: the exception goes to the except clauses and the
\* connection object, dropped with it, gives its connection back.
ConnectionExit(pl, conn, raised) ==
    [pooled |-> "clean", checkedOut |-> pl.checkedOut - 1]

\* Variant: only the first except clause.
ExceptDatabaseOnly(exc) ==
    IF exc \in DatabaseErrors THEN "Database-specific error" ELSE "uncaught"

\* The three except clauses, in order.
ExceptClause(exc) ==
    IF exc \in DatabaseErrors THEN "Database-specific error"
    ELSE IF exc \in SQLAlchemyErrors THEN "SQLAlchemy error"
    ELSE IF exc \in Exceptions THEN "Unexpected error"
    ELSE "uncaught"

\* The result of one call on an engine whose pool is pl: the rows returned,
\* the diagnostic printed ("none" when nothing is printed), whether an
\* exception leaves the method, and the pool afterwards.
ExecuteQuery(pl, d, query, params, fault) ==
    LET c == EngineConnect(pl, fault)
        e == ConnectionExecute(c.conn, d, query, params, fault)
        m == IF e.exc = "none" THEN MappingsAll(e.cursor, fault)
             ELSE [exc |-> e.exc, rows |-> << >>]
        x == ConnectionExit(c, e.conn, m.exc # "none")
        exc == IF c.exc # "none" THEN c.exc
               ELSE IF fault.at = "release" THEN fault.exc
               ELSE m.exc
        after == IF c.exc # "none"
                 THEN [pooled |-> c.pooled, checkedOut |-> c.checkedOut]
                 ELSE x
    IN IF exc = "none"
       THEN [rows |-> m.rows, diag |-> "none", propagated |-> FALSE,
             pooled |-> after.pooled, checkedOut |-> after.checkedOut]
       ELSE [rows |-> << >>,
             diag |-> IF ExceptClause(exc) = "uncaught" THEN "none"
                      ELSE ExceptClause(exc),
             propagated |-> ExceptClause(exc) = "uncaught",
             pooled |-> after.pooled, checkedOut |-> after.checkedOut]

----------------------------------------------------------------------------
(* The object: __init__ (35-39), the lookups (58-94), __del__ (96-100).    *)

NoCall == [op |-> "none"]

FreshPool == [pooled |-> "clean", checkedOut |-> 0]

Failed(call) == call.fault # NoFault

\* What is remembered of an earlier call: its inputs, whether a failure was
\* injected into it, and what it returned.
Summary(call) ==
    IF call = NoCall THEN NoCall
    ELSE [op |-> call.op, params |-> call.params, failed |-> Failed(call),
          rows |-> call.rows]

\* The shared tail of every public lookup: return self._execute_query(...).
\* F is the set of failures the environment may inject and K says whether the
\* remembered earlier call may be replaced by the call that ended last.
Lookup(op, query, params, F, K) ==
    /\ \E fault \in F, keep \in K :
         LET r == ExecuteQuery([pooled |-> pooled, checkedOut |-> checkedOut],
                               db, query, params, fault)
         IN /\ last' = [op |-> op, query |-> query, params |-> params,
                        fault |-> fault, rows |-> r.rows, diag |-> r.diag,
                        propagated |-> r.propagated,
                        afterFailed |-> /\ last # NoCall
                                        /\ (last.afterFailed \/ Failed(last))]
            /\ pooled' = r.pooled
            /\ checkedOut' = r.checkedOut
            /\ memo' = IF keep THEN memo ELSE Summary(last)
    /\ UNCHANGED <<db, obj, engine, acquired, released, unraisable>>

IdInputs == {FlightIds[i] : i \in 1..(Len(db.flights) + 1)}

NameInputs == {AirlineNames[i] : i \in 1..Len(AirlineNames)} \cup {"ZZZ"}

AirportInputs == {Airports[i] : i \in 1..Len(Airports)} \cup {"ZZZ"}

\* A method is called on an object whose constructor returned and that has
\* not been discarded.
get_flight_by_id(F, K) ==
    /\ obj = "live"
    /\ \E flight_id \in IdInputs :
          Lookup("get_flight_by_id", "QUERY_FLIGHT_BY_ID", [id |-> flight_id], F, K)

get_flights_by_date(F, K) ==
    /\ obj = "live"
    /\ \E flight_day \in Days, flight_month \in Months, flight_year \in Years :
          Lookup("get_flights_by_date", "QUERY_FLIGHT_BY_DATE",
                 [year |-> flight_year, month |-> flight_month, day |-> flight_day],
                 F, K)

get_delayed_flights_by_airline(F, K) ==
    /\ obj = "live"
    /\ \E airline_input \in NameInputs :
          Lookup("get_delayed_flights_by_airline", "QUERY_FLIGHT_BY_AIRLINE",
                 [airline |-> airline_input], F, K)

get_delayed_flights_by_airport(F, K) ==
    /\ obj = "live"
    /\ \E airport_input \in AirportInputs :
          Lookup("get_delayed_flights_by_airport", "QUERY_FLIGHT_BY_AIRPORT",
                 [airport |-> airport_input], F, K)

get_delay_percentage_by_airline(F, K) ==
    /\ obj = "live"
    /\ Lookup("get_delay_percentage_by_airline", "QUERY_DELAY_PERCENTAGE_BY_AIRLINE",
              [none |-> "none"], F, K)

\* create_engine(db_uri): raises on a URI it cannot parse, and then the
\* attribute _engine is never set; it opens no connection.
CreateEngineRaises(db_uri) == db_uri = "malformed"

EngineAfterInit(db_uri) == IF CreateEngineRaises(db_uri) THEN "unset" ELSE "live"

Init__(db_uri) ==
    /\ obj = "unborn"
    /\ engine' = EngineAfterInit(db_uri)
    /\ acquired' = IF engine' = "live" THEN acquired + 1 ELSE acquired
    /\ obj' = IF engine' = "live" THEN "live" ELSE "broken"
    /\ UNCHANGED <<db, released, unraisable, pooled, checkedOut, last, memo>>

Construct == \E db_uri \in {"sqlite:///data/flights.sqlite3", "malformed"} : Init__(db_uri)

\* Variant: __del__ without the dispose.
DisposeNothing(e) == e

\* self._engine.dispose()
EngineDispose(e) == "disposed"

\* __del__ runs once, when the object is discarded, also for an object whose
\* __init__ raised; self._engine raises AttributeError when it was never set,
\* which the interpreter reports and drops.
Del__ ==
    /\ obj \in {"live", "broken"}
    /\ obj' = "gone"
    /\ unraisable' = (engine = "unset")
    /\ engine' = IF engine = "unset" THEN engine ELSE EngineDispose(engine)
    /\ released' = IF engine' = "disposed" /\ engine # "disposed"
                   THEN released + 1 ELSE released
    /\ UNCHANGED <<db, acquired, pooled, checkedOut, last, memo>>

----------------------------------------------------------------------------
(* Specifications.                                                         *)

\* The whole life of one object over a fixture dataset, with every failure
\* injected into the calls.
Init ==
    /\ \E n \in 0..FixtureRows :
          db = [flights |-> FixtureFlights(n), airlines |-> FixtureAirlines]
    /\ obj = "unborn"
    /\ engine = "unset"
    /\ acquired = 0
    /\ released = 0
    /\ unraisable = FALSE
    /\ pooled = "clean"
    /\ checkedOut = 0
    /\ last = NoCall
    /\ memo = NoCall

Next ==
    \/ Construct
    \/ get_flight_by_id(Faults, {TRUE})
    \/ get_flights_by_date(Faults, {TRUE})
    \/ get_delayed_flights_by_airline(Faults, {TRUE})
    \/ get_delayed_flights_by_airport(Faults, {TRUE})
    \/ get_delay_percentage_by_airline(Faults, {TRUE})
    \/ Del__

Spec == Init /\ [][Next]_vars

\* A constructed object over every dataset within the bounds, and the first
\* call made on it, without an injected failure.
InitQ ==
    /\ \E f \in FlightTables(MaxFlights), a \in AirlineTables(MaxAirlines) :
          db = [flights |-> f, airlines |-> a]
    /\ obj = "live"
    /\ engine = "live"
    /\ acquired = 1
    /\ released = 0
    /\ unraisable = FALSE
    /\ pooled = "clean"
    /\ checkedOut = 0
    /\ last = NoCall
    /\ memo = NoCall

NextQ ==
    \/ last = NoCall /\ get_flight_by_id({NoFault}, {TRUE})
    \/ last = NoCall /\ get_flights_by_date({NoFault}, {TRUE})
    \/ last = NoCall /\ get_delayed_flights_by_airline({NoFault}, {TRUE})
    \/ last = NoCall /\ get_delayed_flights_by_airport({NoFault}, {TRUE})
    \/ last = NoCall /\ get_delay_percentage_by_airline({NoFault}, {TRUE})

SpecQ == InitQ /\ [][NextQ]_vars

\* A constructed object over a fixture dataset, where an earlier call is
\* remembered beside the last one; a failure of one class is injected at
\* every point.
TwiceFaults == {NoFault} \cup [at : FaultPoints, exc : {"OperationalError"}]

InitTwice ==
    /\ \E n \in 0..FixtureRows :
          db = [flights |-> FixtureFlights(n), airlines |-> FixtureAirlines]
    /\ obj = "live"
    /\ engine = "live"
    /\ acquired = 1
    /\ released = 0
    /\ unraisable = FALSE
    /\ pooled = "clean"
    /\ checkedOut = 0
    /\ last = NoCall
    /\ memo = NoCall

NextTwice ==
    \/ get_flight_by_id(TwiceFaults, BOOLEAN)
    \/ get_flights_by_date(TwiceFaults, BOOLEAN)
    \/ get_delayed_flights_by_airline(TwiceFaults, BOOLEAN)
    \/ get_delayed_flights_by_airport(TwiceFaults, BOOLEAN)
    \/ get_delay_percentage_by_airline(TwiceFaults, BOOLEAN)

SpecTwice == InitTwice /\ [][NextTwice]_vars

----------------------------------------------------------------------------
(* The claims.  A state of a specification lies between two calls: last is *)
(* the call that ended last, with its inputs, the failure injected into it *)
(* and what it gave back.                                                  *)

FlightsWithId(id) == {i \in 1..Len(db.flights) : db.flights[i].ID = id}

AirlineRowsOf(code) == {j \in 1..Len(db.airlines) : db.airlines[j].ID = code}

NamesInAirlines == {db.airlines[j].AIRLINE : j \in 1..Len(db.airlines)}

\* The flights that the airline named name operates: those whose airline
\* code is the key of an airlines row carrying that name.
FlightsOfName(name) ==
    {i \in 1..Len(db.flights) :
        \E j \in AirlineRowsOf(db.flights[i].AIRLINE) : db.airlines[j].AIRLINE = name}

PositiveDelayOfName(name) ==
    {i \in FlightsOfName(name) : db.flights[i].DEPARTURE_DELAY > 0}

Rows(call) == {call.rows[k] : k \in 1..Len(call.rows)}

SortedByPercentageDesc(rows) ==
    \A k \in 1..(Len(rows) - 1) :
        rows[k].delay_percentage >= rows[k + 1].delay_percentage

\* C1: a lookup into which a failure is injected (at connect, execute, row
\* materialisation or release, of any exception class) returns an empty
\* ResultSet, prints a diagnostic, and lets no exception reach the caller.
C1_FailureYieldsEmpty ==
    (last # NoCall /\ Failed(last)) =>
        /\ last.rows = << >>
        /\ last.diag # "none"
        /\ ~last.propagated

\* A release that fails with a plain Exception, in the aggregate query over a
\* dataset that has rows to return.
C1_Witness ==
    /\ last # NoCall
    /\ last.op = "get_delay_percentage_by_airline"
    /\ last.fault = [at |-> "release", exc |-> "Exception"]
    /\ db.flights # << >>
    /\ last.rows = << >>

\* C2, as stated: for every flight ID present in the flights table, whatever
\* the two tables hold, get_flight_by_id returns exactly one record, whose
\* FLIGHT_ID is the input.
C2_Original ==
    (/\ last # NoCall
     /\ last.op = "get_flight_by_id"
     /\ ~Failed(last)
     /\ FlightsWithId(last.params.id) # {}) =>
        /\ Len(last.rows) = 1
        /\ last.rows[1].FLIGHT_ID = last.params.id

\* C2, amended: for every flight ID that exactly one flights row carries and
\* whose airline code is the key of exactly one airlines row, a call of
\* get_flight_by_id that does not fail returns exactly one record, whose
\* FLIGHT_ID is the input.
C2_Amended ==
    (/\ last # NoCall
     /\ last.op = "get_flight_by_id"
     /\ ~Failed(last)
     /\ Cardinality(FlightsWithId(last.params.id)) = 1
     /\ \A i \in FlightsWithId(last.params.id) :
           Cardinality(AirlineRowsOf(db.flights[i].AIRLINE)) = 1) =>
        /\ Len(last.rows) = 1
        /\ last.rows[1].FLIGHT_ID = last.params.id

\* One record comes back for a flight of a table that also holds a flight
\* whose airline code has no airlines row.
C2_Witness ==
    /\ last # NoCall
    /\ last.op = "get_flight_by_id"
    /\ Len(last.rows) = 1
    /\ last.rows[1].FLIGHT_ID = last.params.id
    /\ \E i \in 1..Len(db.flights) : AirlineRowsOf(db.flights[i].AIRLINE) = {}

\* C3: every record returned by get_delayed_flights_by_airline or
\* get_delayed_flights_by_airport has DELAY >= 20.
C3_DelayAtLeast20 ==
    (/\ last # NoCall
     /\ last.op \in {"get_delayed_flights_by_airline",
                     "get_delayed_flights_by_airport"}) =>
        \A r \in Rows(last) : r.DELAY >= 20

\* A by-airport call returns a record while a flight of the same airport with
\* a delay of 19 minutes is left out.
C3_Witness ==
    /\ last # NoCall
    /\ last.op = "get_delayed_flights_by_airport"
    /\ last.rows # << >>
    /\ \E i \in 1..Len(db.flights) :
          /\ db.flights[i].ORIGIN_AIRPORT = last.params.airport
          /\ db.flights[i].DEPARTURE_DELAY = 19
          /\ AirlineRowsOf(db.flights[i].AIRLINE) # {}

\* C4, as stated: each record returned by get_delayed_flights_by_airline
\* carries in ID the id of the flight it describes, with that flight's origin
\* airport, destination airport, airline name and delay.
C4_IdIsFlightId ==
    (/\ last # NoCall
     /\ last.op = "get_delayed_flights_by_airline") =>
        \A r \in Rows(last) :
            \E i \in 1..Len(db.flights) :
                /\ r.ID = db.flights[i].ID
                /\ r.ORIGIN_AIRPORT = db.flights[i].ORIGIN_AIRPORT
                /\ r.DESTINATION_AIRPORT = db.flights[i].DESTINATION_AIRPORT
                /\ r.DELAY = db.flights[i].DEPARTURE_DELAY
                /\ i \in FlightsOfName(r.AIRLINE)

\* C5, as stated: one row per distinct airline in the dataset, each
\* percentage equal to count(delay > 0) * 100 / count(*) of that airline's
\* flights and within [0, 100], rows in descending order of percentage.
C5_Original ==
    (/\ last # NoCall
     /\ last.op = "get_delay_percentage_by_airline"
     /\ ~Failed(last)) =>
        /\ Len(last.rows) = Cardinality(NamesInAirlines)
        /\ {r.airline_name : r \in Rows(last)} = NamesInAirlines
        /\ \A r \in Rows(last) :
              /\ r.delay_percentage * Cardinality(FlightsOfName(r.airline_name))
                   = Cardinality(PositiveDelayOfName(r.airline_name)) * 10000
              /\ r.delay_percentage >= 0
              /\ r.delay_percentage <= 10000
        /\ SortedByPercentageDesc(last.rows)

NamesWithFlights == {name \in NamesInAirlines : FlightsOfName(name) # {}}

Distance(a, b) == IF a >= b THEN a - b ELSE b - a

\* C5, amended: a call that does not fail returns one row per distinct
\* airline name that at least one flight is joined to, each percentage being
\* count(delay > 0) * 100 / count(*) over the flights joined to that name,
\* rounded to the nearest hundredth, and within [0, 100]; the rows are in
\* descending order of the rounded percentage.
C5_Amended ==
    (/\ last # NoCall
     /\ last.op = "get_delay_percentage_by_airline"
     /\ ~Failed(last)) =>
        /\ Len(last.rows) = Cardinality(NamesWithFlights)
        /\ {r.airline_name : r \in Rows(last)} = NamesWithFlights
        /\ \A r \in Rows(last) :
              /\ 2 * Distance(
                       r.delay_percentage * Cardinality(FlightsOfName(r.airline_name)),
                       Cardinality(PositiveDelayOfName(r.airline_name)) * 10000)
                   <= Cardinality(FlightsOfName(r.airline_name))
              /\ r.delay_percentage >= 0
              /\ r.delay_percentage <= 10000
        /\ SortedByPercentageDesc(last.rows)

\* Two airlines come back, the first with one of its two flights delayed
\* (50.00), the second with one of its three (33.33).
C5_Witness ==
    /\ last # NoCall
    /\ last.op = "get_delay_percentage_by_airline"
    /\ Len(last.rows) = 2
    /\ last.rows[1].delay_percentage = 5000
    /\ last.rows[2].delay_percentage = 3333

\* The filter of the call matches no record: an id that no flight has, an
\* airline name that no airline has.
MatchesNothing(call) ==
    \/ /\ call.op = "get_flight_by_id"
       /\ FlightsWithId(call.params.id) = {}
    \/ /\ call.op = "get_delayed_flights_by_airline"
       /\ call.params.airline \notin NamesInAirlines

\* C6: a lookup whose filter matches no record returns an empty ResultSet,
\* nothing reaches the caller, and, unless a failure was injected, nothing is
\* reported as an error.
C6_NoMatchIsEmpty ==
    (last # NoCall /\ MatchesNothing(last)) =>
        /\ last.rows = << >>
        /\ ~last.propagated
        /\ (~Failed(last) => last.diag = "none")

\* get_delayed_flights_by_airline("ZZZ") on a dataset with delayed flights,
\* no failure injected.
C6_Witness ==
    /\ last # NoCall
    /\ last.op = "get_delayed_flights_by_airline"
    /\ last.params.airline = "ZZZ"
    /\ ~Failed(last)
    /\ last.rows = << >>
    /\ \E i \in 1..Len(db.flights) : db.flights[i].DEPARTURE_DELAY >= 20

SameInputs(a, b) == a.op = b.op /\ a.params = b.params

\* C7: two calls of one lookup with identical inputs, both without a failure
\* or both with one, return identical ResultSets over the unchanged dataset,
\* whatever calls were made before and between them.
C7_SameCallSameRows ==
    (/\ last # NoCall
     /\ memo # NoCall
     /\ SameInputs(memo, last)
     /\ memo.failed = Failed(last)) =>
        memo.rows = last.rows

\* A call returns rows, a later call fails, and the first call made again
\* returns the same rows.
C7_Witness ==
    /\ last # NoCall
    /\ memo # NoCall
    /\ SameInputs(memo, last)
    /\ ~memo.failed
    /\ ~Failed(last)
    /\ last.afterFailed
    /\ last.rows # << >>
    /\ memo.rows = last.rows

\* C8: between calls, after any sequence of calls that returned rows,
\* returned none or failed at any step, no scoped connection is open.
C8_ScopeReleased == checkedOut = 0

\* A call that failed while executing, made after another failed call.
C8_Witness ==
    /\ last # NoCall
    /\ last.fault.at = "execute"
    /\ last.afterFailed
    /\ checkedOut = 0

\* C9, as stated: in every lifecycle, also one where construction fails, the
\* handle is acquired once at construction and released exactly once, when
\* the object is discarded; no lookup acquires or releases it.
C9_Original ==
    /\ obj # "unborn" => acquired = 1
    /\ obj = "gone" => released = 1
    /\ obj # "gone" => released = 0

\* C9, amended: when construction succeeds the handle is acquired once, at
\* construction, and released exactly once, when the object is discarded, and
\* no lookup acquires or releases it; when construction fails no handle is
\* acquired and none is released: __del__ still runs and raises
\* AttributeError on the attribute that was never set.
C9_Amended ==
    /\ obj = "unborn" => (acquired = 0 /\ released = 0)
    /\ obj = "live" => (acquired = 1 /\ released = 0 /\ engine = "live")
    /\ obj = "broken" => (acquired = 0 /\ released = 0 /\ engine = "unset")
    /\ obj = "gone" =>
          /\ acquired \in {0, 1}
          /\ released = acquired
          /\ unraisable <=> acquired = 0
          /\ engine = "disposed" <=> acquired = 1

\* An object that was constructed, used for a lookup and discarded.
C9_Witness ==
    /\ obj = "gone"
    /\ last # NoCall
    /\ acquired = 1
    /\ released = 1

\* C10: a call made after a failed call returns what the same call, meeting
\* the same failure or none, returns on an engine that no call has used.
C10_FailureLeavesNoTrace ==
    (last # NoCall /\ last.afterFailed) =>
        last.rows = ExecuteQuery(FreshPool, db, last.query, last.params, last.fault).rows

\* A call that returns rows after an earlier call failed.
C10_Witness ==
    /\ last # NoCall
    /\ last.afterFailed
    /\ ~Failed(last)
    /\ last.rows # << >>

====
